---- MODULE Spec2Model ----
(***************************************************************************)
(* Model of the diceroll expression engine (src/src/expr.rs, die.rs).      *)
(*                                                                         *)
(* A text is a sequence of characters, each character a one-character      *)
(* string; "ar3" stands for U+0663 ARABIC-INDIC DIGIT THREE, a character   *)
(* the regex class \d matches and the integer parser refuses.              *)
(* overflow_checks is the build profile: TRUE for a build that panics on   *)
(* integer overflow (cargo's dev profile), FALSE for one that wraps        *)
(* (cargo's release profile).                                              *)
(***************************************************************************)
EXTENDS Integers, Sequences, FiniteSets, TLC

VARIABLES input, overflow_checks, parsed, draws, rolled, rendered, reparsed, pc

vars == <<input, overflow_checks, parsed, draws, rolled, rendered, reparsed, pc>>

\* ---------------------------------------------------------------- bounds
\* longest text of the exhaustive family of short inputs
MaxLen == 4
\* largest count for which roll is explored
MaxDice == 2
\* the low faces of a die that are explored besides its two highest
MaxFace == 2

\* ------------------------------------------------------- integer widths
U16Max == 65535
I16Max == 32767
I16Min == -32768

AsI16(u) == IF u > I16Max THEN u - (U16Max + 1) ELSE u
AsU16(i) == IF i < 0 THEN i + (U16Max + 1) ELSE i
WrapU16(x) == (x + 2 * (U16Max + 1)) % (U16Max + 1)
WrapI16(x) == ((x - I16Min + 2 * (U16Max + 1)) % (U16Max + 1)) + I16Min

Val(v) == [ok |-> TRUE, v |-> v]
Overflow == [ok |-> FALSE, v |-> 0]

\* u16 * u16, u16 + u16, u16 - u16, -i16, i16 + i16: panic under overflow
\* checks, two's complement wrap-around otherwise
\* (the product is formed in two halves, every intermediate value below 2^31)
MulOverflows(a, b) == a # 0 /\ b > U16Max \div a
MulWrapped(a, b) ==
    ((((a \div 256) * b) % 256) * 256 + (a % 256) * b) % (U16Max + 1)
MulU16(a, b, oc) == IF MulOverflows(a, b) /\ oc THEN Overflow ELSE Val(MulWrapped(a, b))
AddU16(a, b, oc) == IF a + b > U16Max /\ oc THEN Overflow ELSE Val(WrapU16(a + b))
SubU16(a, b, oc) == IF a - b < 0 /\ oc THEN Overflow ELSE Val(WrapU16(a - b))
NegI16(n, oc) == IF n = I16Min /\ oc THEN Overflow ELSE Val(WrapI16(0 - n))
AddI16(a, b, oc) ==
    IF (a + b > I16Max \/ a + b < I16Min) /\ oc THEN Overflow ELSE Val(WrapI16(a + b))

\* ------------------------------------------------------------ characters
DigitChars == <<"0", "1", "2", "3", "4", "5", "6", "7", "8", "9">>
AsciiDigits == {DigitChars[i] : i \in 1..10}
to_digit(c) == (CHOOSE i \in 1..10 : DigitChars[i] = c) - 1

\* the class \d of the regex: every Unicode decimal digit
RE_digit == AsciiDigits \cup {"ar3"}
RE_sign == {"+", "-"}
RE_drop == {"L", "l", "H", "h"}

to_lowercase(c) ==
    CASE c = "H" -> "h"
      [] c = "L" -> "l"
      [] c = "J" -> "j"
      [] c = "D" -> "d"
      [] OTHER -> c

\* ----------------------------------------------------------------- regex
None == [some |-> FALSE, str |-> <<>>]
Some(s) == [some |-> TRUE, str |-> s]

RECURSIVE DigitRun(_, _)
\* the index after the longest run of \d that starts at s[i]
DigitRun(s, i) ==
    IF i <= Len(s) /\ s[i] \in RE_digit THEN DigitRun(s, i + 1) ELSE i

\* the pattern without its anchor $
RE_end_unanchored(s, i) == i <= Len(s) + 1

\* the anchor $: only the end of the text
RE_end(s, i) == i = Len(s) + 1

NoMatch == [matched |-> FALSE, g1 |-> None, g2 |-> None, g3 |-> None, g4 |-> None]

\* ^(\d+)?d(\d+)([+-]\d+)?(?:-([LlHh]))?$
RE_captures(s) ==
    LET i1 == DigitRun(s, 1)
        g1 == IF i1 > 1 THEN Some(SubSeq(s, 1, i1 - 1)) ELSE None
        i2 == DigitRun(s, i1 + 1)
        hasMod == /\ i2 <= Len(s)
                  /\ s[i2] \in RE_sign
                  /\ DigitRun(s, i2 + 1) > i2 + 1
        i3 == IF hasMod THEN DigitRun(s, i2 + 1) ELSE i2
        g3 == IF hasMod THEN Some(SubSeq(s, i2, i3 - 1)) ELSE None
        hasDrop == /\ i3 + 1 <= Len(s)
                   /\ s[i3] = "-"
                   /\ s[i3 + 1] \in RE_drop
        i4 == IF hasDrop THEN i3 + 2 ELSE i3
        g4 == IF hasDrop THEN Some(<<s[i3 + 1]>>) ELSE None
    IN  IF /\ i1 <= Len(s)
           /\ s[i1] = "d"
           /\ i2 > i1 + 1
           /\ RE_end(s, i4)
        THEN [matched |-> TRUE, g1 |-> g1, g2 |-> Some(SubSeq(s, i1 + 1, i2 - 1)),
              g3 |-> g3, g4 |-> g4]
        ELSE NoMatch

\* ------------------------------------------------------- integer parsing
ParseOk(n) == [ok |-> TRUE, v |-> n, kind |-> "none"]
ParseErr(k) == [ok |-> FALSE, v |-> 0, kind |-> k]

RECURSIVE ParseDigits(_, _, _, _, _, _)
\* the digit loop of str::parse: checked multiply by ten, checked add (or
\* subtract, for a negative number) of the digit, left to right
ParseDigits(s, i, acc, neg, lo, hi) ==
    IF i > Len(s) THEN ParseOk(acc)
    ELSE IF s[i] \notin AsciiDigits THEN ParseErr("InvalidDigit")
    ELSE LET next == IF neg THEN acc * 10 - to_digit(s[i])
                     ELSE acc * 10 + to_digit(s[i])
         IN  IF next > hi THEN ParseErr("PosOverflow")
             ELSE IF next < lo THEN ParseErr("NegOverflow")
             ELSE ParseDigits(s, i + 1, next, neg, lo, hi)

\* str::parse::<u16>
parse_u16(s) ==
    IF s = <<>> THEN ParseErr("Empty")
    ELSE IF s[1] = "+" THEN
        IF Len(s) = 1 THEN ParseErr("InvalidDigit")
        ELSE ParseDigits(s, 2, 0, FALSE, 0, U16Max)
    ELSE ParseDigits(s, 1, 0, FALSE, 0, U16Max)

\* str::parse::<i16>
parse_i16(s) ==
    IF s = <<>> THEN ParseErr("Empty")
    ELSE IF s[1] \in RE_sign THEN
        IF Len(s) = 1 THEN ParseErr("InvalidDigit")
        ELSE ParseDigits(s, 2, 0, s[1] = "-", I16Min, I16Max)
    ELSE ParseDigits(s, 1, 0, FALSE, I16Min, I16Max)

\* ---------------------------------------------------------------- results
NoResult == [tag |-> "None"]
Ok(c, sd, m, dr) ==
    [tag |-> "Ok", expr |-> [count |-> c, sides |-> sd, modifier |-> m, drop |-> dr]]
ErrExpr(s) == [tag |-> "Expr", text |-> s]
ErrParseInt(k) == [tag |-> "ParseIntError", kind |-> k]
ErrDrop(s) == [tag |-> "Drop", text |-> s]
Panic(msg) == [tag |-> "Panic", msg |-> msg]

\* Drop::try_from with the arms of the match exchanged
Drop_try_from_swapped(s) ==
    LET lower == [i \in 1..Len(s) |-> to_lowercase(s[i])]
    IN  IF lower = <<"h">> THEN [ok |-> TRUE, drop |-> "Low", err |-> NoResult]
        ELSE IF lower = <<"l">> THEN [ok |-> TRUE, drop |-> "High", err |-> NoResult]
        ELSE [ok |-> FALSE, drop |-> "None", err |-> ErrDrop(s)]

\* impl TryFrom<&str> for Drop
Drop_try_from(s) ==
    LET lower == [i \in 1..Len(s) |-> to_lowercase(s[i])]
    IN  IF lower = <<"h">> THEN [ok |-> TRUE, drop |-> "High", err |-> NoResult]
        ELSE IF lower = <<"l">> THEN [ok |-> TRUE, drop |-> "Low", err |-> NoResult]
        ELSE [ok |-> FALSE, drop |-> "None", err |-> ErrDrop(s)]

\* the guard of the modifier arm: -n < (count * sides) as i16
ModifierGuard(n, count, sides, oc) ==
    LET neg == NegI16(n, oc)
        prod == MulU16(count, sides, oc)
    IN  IF ~neg.ok THEN [panic |-> TRUE, msg |-> "attempt to negate with overflow", holds |-> FALSE]
        ELSE IF ~prod.ok THEN [panic |-> TRUE, msg |-> "attempt to multiply with overflow", holds |-> FALSE]
        ELSE [panic |-> FALSE, msg |-> "", holds |-> neg.v < AsI16(prod.v)]

\* impl TryFrom<&str> for DiceExpr
DiceExpr_try_from(s, oc) ==
    LET caps == RE_captures(s)
        count == IF caps.g1.some THEN parse_u16(caps.g1.str) ELSE ParseOk(1)
        sides == parse_u16(caps.g2.str)
        n == parse_i16(caps.g3.str)
        guard == ModifierGuard(n.v, count.v, sides.v, oc)
        modifier == IF caps.g3.some THEN n.v ELSE 0
        drop == Drop_try_from(caps.g4.str)
    IN  IF ~caps.matched THEN ErrExpr(s)
        ELSE IF ~count.ok THEN ErrParseInt(count.kind)
        ELSE IF ~caps.g2.some THEN ErrExpr(s)
        ELSE IF ~sides.ok THEN ErrParseInt(sides.kind)
        ELSE IF caps.g3.some /\ ~n.ok THEN ErrParseInt(n.kind)
        ELSE IF caps.g3.some /\ guard.panic THEN Panic(guard.msg)
        ELSE IF caps.g3.some /\ ~guard.holds THEN ErrExpr(s)
        ELSE IF caps.g4.some /\ count.v = 1 THEN ErrExpr(s)
        ELSE IF caps.g4.some /\ ~drop.ok THEN drop.err
        ELSE Ok(count.v, sides.v, modifier, IF caps.g4.some THEN drop.drop ELSE "None")

\* --------------------------------------------------------------- Display
RECURSIVE FmtNat(_)
\* the decimal digits of a natural number, as format!("{}", n) writes them
FmtNat(n) ==
    IF n < 10 THEN <<DigitChars[n + 1]>>
    ELSE Append(FmtNat(n \div 10), DigitChars[(n % 10) + 1])

\* format!("{}", n) of a signed integer
FmtInt(n) == IF n < 0 THEN <<"-">> \o FmtNat(0 - n) ELSE FmtNat(n)

\* impl fmt::Display for Drop
Drop_fmt(drop) ==
    CASE drop = "High" -> <<"-", "H">>
      [] drop = "Low" -> <<"-", "L">>
      [] OTHER -> <<>>

\* impl fmt::Display for DiceExpr
DiceExpr_fmt(e) ==
    (IF e.count = 1 THEN <<>> ELSE FmtNat(e.count))
    \o <<"d">>
    \o FmtNat(e.sides)
    \o (IF e.modifier > 0 THEN <<"+">> \o FmtInt(e.modifier)
        ELSE IF e.modifier < 0 THEN FmtInt(e.modifier)
        ELSE <<>>)
    \o Drop_fmt(e.drop)

\* ------------------------------------------------------------------ roll
Min2(a, b) == IF a < b THEN a ELSE b
Max2(a, b) == IF a > b THEN a ELSE b

\* a die whose range starts at 0
Die_roll_from_zero(sides) ==
    (0..Min2(sides, MaxFace)) \cup (Max2(0, sides - 1)..sides)

\* Die::roll: the values Uniform::from(1..=sides) can draw. Of a die with
\* many faces the model explores the faces up to MaxFace and the two highest.
Die_roll(sides) ==
    (1..Min2(sides, MaxFace)) \cup (Max2(1, sides - 1)..sides)

RECURSIVE IterSum(_, _, _, _)
\* rolls.iter().sum::<u16>(): a left-to-right fold of u16 additions
IterSum(rs, i, acc, oc) ==
    IF i > Len(rs) THEN Val(acc)
    ELSE LET next == AddU16(acc, rs[i], oc)
         IN  IF ~next.ok THEN Overflow ELSE IterSum(rs, i + 1, next.v, oc)

IterMax(rs) == CHOOSE x \in {rs[i] : i \in 1..Len(rs)} : \A j \in 1..Len(rs) : rs[j] <= x
IterMin(rs) == CHOOSE x \in {rs[i] : i \in 1..Len(rs)} : \A j \in 1..Len(rs) : rs[j] >= x

RollOk(total, rs) == [tag |-> "Ok", total |-> total, rolls |-> rs]

\* DiceExpr::roll, after the dice rs were drawn
DiceExpr_roll(e, rs, oc) ==
    LET all == IterSum(rs, 1, 0, oc)
        dropped == CASE e.drop = "High" -> IterMax(rs)
                     [] e.drop = "Low" -> IterMin(rs)
                     [] OTHER -> 0
        sum == SubU16(all.v, dropped, oc)
        neg == NegI16(e.modifier, oc)
        adjusted == AddI16(AsI16(sum.v), e.modifier, oc)
    IN  IF ~all.ok THEN Panic("attempt to add with overflow")
        ELSE IF e.drop # "None" /\ rs = <<>>
            THEN Panic("unwrap on a None value")
        ELSE IF ~sum.ok THEN Panic("attempt to subtract with overflow")
        ELSE IF ~neg.ok THEN Panic("attempt to negate with overflow")
        ELSE IF neg.v < AsI16(sum.v) THEN
            IF ~adjusted.ok THEN Panic("attempt to add with overflow")
            ELSE RollOk(AsU16(adjusted.v), rs)
        ELSE RollOk(0, rs)

\* the sequences of count draws of a die
RollSeqs(count, sides) ==
    IF count = 0 THEN {<<>>} ELSE [1..count -> Die_roll(sides)]

\* ---------------------------------------------------------------- inputs
\* "nl" stands for U+000A, a line feed
Alphabet == {"0", "2", "d", "-", "+", "H", "J", "nl"}

\* every text of at most MaxLen characters of Alphabet
ShortTexts == UNION {[1..n -> Alphabet] : n \in 0..MaxLen}

CountTexts ==
    { <<>>, <<"0">>, <<"1">>, <<"2">>, <<"3">>, <<"4">>, <<"0", "2">>,
      <<"2", "0", "0">>, <<"3", "0", "0">>,
      <<"6", "5", "5", "3", "5">>, <<"6", "5", "5", "3", "6">> }

SidesTexts ==
    { <<"0">>, <<"1">>, <<"2">>, <<"4">>, <<"2", "0", "0">>, <<"3", "0", "0">>,
      <<"3", "0", "0", "0", "0">>, <<"4", "0", "0", "0", "0">>,
      <<"6", "5", "5", "3", "5">>, <<"6", "5", "5", "3", "6">> }

ModTexts ==
    { <<>>, <<"+", "1">>, <<"-", "1">>, <<"+", "0">>, <<"-", "2">>, <<"-", "4">>,
      <<"-", "1", "5">>, <<"-", "1", "6">>, <<"+", "3", "0", "0", "0", "0">>,
      <<"-", "3", "2", "7", "6", "8">>, <<"+", "3", "2", "7", "6", "8">>,
      <<"-", "3", "2", "7", "6", "9">>, <<"+", "ar3">> }

DropTexts == { <<>>, <<"-", "H">>, <<"-", "h">>, <<"-", "L">>, <<"-", "l">>, <<"-", "J">> }

\* texts built along the grammar, with the numbers at the edges of the
\* 16-bit ranges
GrammarTexts ==
    { c \o <<"d">> \o sd \o m \o dr :
        c \in CountTexts, sd \in SidesTexts, m \in ModTexts, dr \in DropTexts }

Inputs == ShortTexts \cup GrammarTexts

\* the field values an Expression is built from directly
FieldCounts == {0, 1, 2, 4, 200, 300, U16Max}
FieldSides == {0, 1, 2, 4, 200, 300, 40000, U16Max}
FieldModifiers == {0, 1, -1, -3, -15, I16Max, -32767, I16Min}
FieldDrops == {"None", "High", "Low"}

\* count * sides <= k in the integers
ProductAtMost(c, sd, k) == k >= 0 /\ (c = 0 \/ sd <= k \div c)

\* the invariants of the data model: sides > 0, -modifier < count * sides,
\* a drop rule only with more than one die
Invariants(e) ==
    /\ e.sides > 0
    /\ ~ProductAtMost(e.count, e.sides, 0 - e.modifier)
    /\ e.drop # "None" => e.count > 1

\* ----------------------------------------------------------- state machine
Init ==
    /\ input \in Inputs
    /\ overflow_checks \in BOOLEAN
    /\ parsed = NoResult
    /\ draws = <<>>
    /\ rolled = NoResult
    /\ rendered = <<>>
    /\ reparsed = NoResult
    /\ pc = "start"

\* an Expression built from its fields, as the tests of the crate do
InitFields ==
    /\ input = <<>>
    /\ overflow_checks \in BOOLEAN
    /\ \E c \in FieldCounts, sd \in FieldSides, m \in FieldModifiers, dr \in FieldDrops :
          parsed = Ok(c, sd, m, dr)
    /\ draws = <<>>
    /\ rolled = NoResult
    /\ rendered = <<>>
    /\ reparsed = NoResult
    /\ pc = "built"

\* DiceExpr::try_from(input)
TryFrom ==
    /\ pc = "start"
    /\ parsed' = DiceExpr_try_from(input, overflow_checks)
    /\ pc' = "parsed"
    /\ UNCHANGED <<input, overflow_checks, draws, rolled, rendered, reparsed>>

\* dice.roll(): count draws of a die, then the total
Roll ==
    /\ pc = "parsed"
    /\ parsed.tag = "Ok"
    /\ parsed.expr.count <= MaxDice
    /\ IF parsed.expr.count > 0 /\ Die_roll(parsed.expr.sides) = {}
       THEN /\ draws' = <<>>
            /\ rolled' = Panic("Uniform::new_inclusive called with low > high")
       ELSE \E rs \in RollSeqs(parsed.expr.count, parsed.expr.sides) :
              /\ draws' = rs
              /\ rolled' = DiceExpr_roll(parsed.expr, rs, overflow_checks)
    /\ pc' = "rolled"
    /\ UNCHANGED <<input, overflow_checks, parsed, rendered, reparsed>>

\* format!("{}", dice)
Fmt ==
    /\ pc \in {"parsed", "built"}
    /\ parsed.tag = "Ok"
    /\ rendered' = DiceExpr_fmt(parsed.expr)
    /\ pc' = "rendered"
    /\ UNCHANGED <<input, overflow_checks, parsed, draws, rolled, reparsed>>

\* DiceExpr::try_from of the rendered text
TryFromRendered ==
    /\ pc = "rendered"
    /\ reparsed' = DiceExpr_try_from(rendered, overflow_checks)
    /\ pc' = "reparsed"
    /\ UNCHANGED <<input, overflow_checks, parsed, draws, rolled, rendered>>

Next == TryFrom \/ Roll \/ Fmt \/ TryFromRendered

Spec == Init /\ [][Next]_vars

NextFields == Fmt \/ TryFromRendered

SpecFields == InitFields /\ [][NextFields]_vars

TypeOK ==
    /\ pc \in {"start", "built", "parsed", "rolled", "rendered", "reparsed"}
    /\ parsed.tag \in {"None", "Ok", "Expr", "ParseIntError", "Drop", "Panic"}
    /\ rolled.tag \in {"None", "Ok", "Panic"}

\* ------------------------------------------------- the grammar, as stated
\* [count]d<sides>[+N|-N][-h|-H|-l|-L], read off a text s by the positions
\* a, b, c at which the count, the sides and the modifier end

Digits(s, from, to) == from <= to /\ \A i \in from..to : s[i] \in RE_digit
Ascii(s, from, to) == \A i \in from..to : s[i] \in AsciiDigits

RECURSIVE NatOf(_)
\* the number a run of ASCII digits denotes
NatOf(ds) ==
    IF ds = <<>> THEN 0
    ELSE NatOf(SubSeq(ds, 1, Len(ds) - 1)) * 10 + to_digit(ds[Len(ds)])

Splits(s) ==
    { t \in (0..Len(s)) \X (0..Len(s)) \X {Len(s) - 2, Len(s)} :
        /\ t[1] = 0 \/ Digits(s, 1, t[1])
        /\ t[1] + 1 <= Len(s)
        /\ s[t[1] + 1] = "d"
        /\ Digits(s, t[1] + 2, t[2])
        /\ t[3] >= t[2]
        /\ t[3] = t[2] \/ (s[t[2] + 1] \in RE_sign /\ Digits(s, t[2] + 2, t[3]))
        /\ t[3] = Len(s) \/ (s[t[3] + 1] = "-" /\ s[t[3] + 2] \in RE_drop) }

Grammar(s) == Splits(s) # {}

HasCount(s, t) == t[1] > 0
HasModifier(s, t) == t[3] > t[2]
HasDrop(s, t) == t[3] < Len(s)

\* every digit of the text is an ASCII digit
AsciiNumbers(s, t) ==
    /\ Ascii(s, 1, t[1])
    /\ Ascii(s, t[1] + 2, t[2])
    /\ Ascii(s, t[2] + 2, t[3])

CountOf(s, t) == IF HasCount(s, t) THEN NatOf(SubSeq(s, 1, t[1])) ELSE 1
SidesOf(s, t) == NatOf(SubSeq(s, t[1] + 2, t[2]))
ModifierOf(s, t) ==
    IF ~HasModifier(s, t) THEN 0
    ELSE IF s[t[2] + 1] = "-" THEN 0 - NatOf(SubSeq(s, t[2] + 2, t[3]))
    ELSE NatOf(SubSeq(s, t[2] + 2, t[3]))
DropOf(s, t) ==
    IF ~HasDrop(s, t) THEN "None"
    ELSE IF s[Len(s)] \in {"h", "H"} THEN "High"
    ELSE "Low"

\* count and sides fit a u16, the modifier an i16
FitsWidths(s, t) ==
    /\ AsciiNumbers(s, t)
    /\ CountOf(s, t) <= U16Max
    /\ SidesOf(s, t) <= U16Max
    /\ ModifierOf(s, t) >= I16Min
    /\ ModifierOf(s, t) <= I16Max

\* ---------------------------------------------------------------- claims

\* C1: whenever try_from returns an Expression, the input matches the
\* grammar, count is the leading integer (1 when omitted), sides the integer
\* after d, modifier the signed integer of the modifier group (0 when
\* omitted), and drop is High for h/H, Low for l/L, None without a suffix.
C1_ParsedFields ==
    (pc = "parsed" /\ parsed.tag = "Ok") =>
        \E t \in Splits(input) :
            /\ AsciiNumbers(input, t)
            /\ parsed.expr.count = CountOf(input, t)
            /\ parsed.expr.sides = SidesOf(input, t)
            /\ parsed.expr.modifier = ModifierOf(input, t)
            /\ parsed.expr.drop = DropOf(input, t)

C1_Witness ==
    /\ pc = "parsed"
    /\ parsed.tag = "Ok"
    /\ parsed.expr.count = 2
    /\ parsed.expr.modifier < 0
    /\ parsed.expr.drop = "Low"

\* C2: for a grammar-matching input without drop suffix whose count and
\* sides fit a u16 and whose modifier group is a signed 16-bit integer m,
\* try_from returns ExprError(text) exactly when -m >= count * sides in the
\* integers, and accepts the modifier otherwise.
C2_ModifierCheck ==
    pc = "parsed" =>
        \A t \in Splits(input) :
            (HasModifier(input, t) /\ ~HasDrop(input, t) /\ FitsWidths(input, t)) =>
                IF ProductAtMost(CountOf(input, t), SidesOf(input, t), 0 - ModifierOf(input, t))
                THEN parsed = ErrExpr(input)
                ELSE parsed = Ok(CountOf(input, t), SidesOf(input, t),
                                 ModifierOf(input, t), "None")

RECURSIVE SeqSum(_)
\* the sum of a sequence of integers
SeqSum(rs) == IF rs = <<>> THEN 0 ELSE rs[1] + SeqSum(Tail(rs))

\* the sum of the draws less one occurrence of the dropped roll
SumAfterDrop(rs, drop) ==
    SeqSum(rs) - (CASE drop = "High" -> IterMax(rs)
                    [] drop = "Low" -> IterMin(rs)
                    [] OTHER -> 0)

\* C3: the total roll returns is max(0, S + modifier), S the sum of all
\* rolls less one occurrence of the maximum (drop High) or of the minimum
\* (drop Low); it is never negative.
C3_Total ==
    (pc = "rolled" /\ rolled.tag = "Ok") =>
        /\ rolled.total >= 0
        /\ rolled.total =
              Max2(0, SumAfterDrop(draws, parsed.expr.drop) + parsed.expr.modifier)

\* C4: the rolls sequence roll returns has length count, every element in
\* [1, sides], and is the complete list of draws in draw order, the dropped
\* roll included.
C4_Rolls ==
    (pc = "rolled" /\ rolled.tag = "Ok") =>
        /\ Len(rolled.rolls) = parsed.expr.count
        /\ \A i \in 1..Len(rolled.rolls) :
              rolled.rolls[i] >= 1 /\ rolled.rolls[i] <= parsed.expr.sides
        /\ rolled.rolls = draws

C4_Witness ==
    /\ pc = "rolled"
    /\ rolled.tag = "Ok"
    /\ parsed.expr.drop = "High"
    /\ parsed.expr.count = 2
    /\ rolled.rolls = <<2, 1>>
    /\ rolled.total = 1

\* C5: for every Expression try_from returns, roll completes and returns a
\* (total, rolls) pair: the die draw, the max/min selection and the sum
\* arithmetic never fault.
C5_RollCompletes ==
    pc = "rolled" => rolled.tag = "Ok"

C7_DropSingleDie ==
    pc = "parsed" =>
        /\ \A t \in Splits(input) :
              (HasDrop(input, t) /\ FitsWidths(input, t) /\ CountOf(input, t) = 1) =>
                  parsed = ErrExpr(input)
        /\ (parsed.tag = "Ok" /\ parsed.expr.drop # "None") => parsed.expr.count > 1

Letters == {"D", "d", "H", "h", "J", "j", "L", "l"}

\* C8: every input with count > 1 that ends in a hyphen and a single letter
\* other than h/H/l/L returns DropError carrying that letter in lower case.
C8_DropError ==
    pc = "parsed" =>
        \A x \in Letters \ RE_drop :
            (Len(input) > 2 /\ SubSeq(input, Len(input) - 1, Len(input)) = <<"-", x>>) =>
                LET body == SubSeq(input, 1, Len(input) - 2)
                IN  \A t \in Splits(body) :
                        ( /\ ~HasDrop(body, t)
                          /\ FitsWidths(body, t)
                          /\ CountOf(body, t) > 1
                          /\ ~ProductAtMost(CountOf(body, t), SidesOf(body, t),
                                            0 - ModifierOf(body, t)) ) =>
                            parsed = ErrDrop(<<to_lowercase(x)>>)

\* C9: round trip: for every combination of count, sides, modifier and drop
\* that satisfies the data-model invariants, parsing the text Display
\* renders returns Ok with an Expression equal field for field.
C9_RoundTrip ==
    (pc = "reparsed" /\ Invariants(parsed.expr)) => reparsed = parsed

\* C10: try_from ends with Ok or exactly one of ExprError, IntegerParseError
\* and DropError for every input, never with a fault; a digit group too
\* large for its 16-bit type yields IntegerParseError.
C10_TypedResult ==
    pc = "parsed" =>
        /\ parsed.tag \in {"Ok", "Expr", "ParseIntError", "Drop"}
        /\ \A t \in Splits(input) :
              (AsciiNumbers(input, t) /\ ~FitsWidths(input, t)) =>
                  parsed.tag = "ParseIntError"

\* the explored faces of the die are all of its faces
AllFaces(sides) == Cardinality(Die_roll(sides)) = sides

\* C11: for every Expression try_from accepts, at least one outcome of the
\* dice (count rolls, each in [1, sides]) makes roll return a total greater
\* than 0, also when a High or Low drop rule removes one die from the sum.
C11_SomeTotalPositive ==
    ( /\ pc = "parsed"
      /\ parsed.tag = "Ok"
      /\ parsed.expr.count <= MaxDice
      /\ AllFaces(parsed.expr.sides) ) =>
        \E rs \in RollSeqs(parsed.expr.count, parsed.expr.sides) :
            LET r == DiceExpr_roll(parsed.expr, rs, overflow_checks)
            IN  r.tag = "Ok" /\ r.total > 0

====
